---- MODULE Spec2Model ----
(***************************************************************************)
(* Sony CISIP2 integration: the connection supervisor of __init__.py       *)
(* (try_connect, try_get_mac_address, check_connection_and_reconnect,      *)
(* async_setup / async_setup_entry / async_unload_entry) and the zone      *)
(* entities of media_player.py (SonyCISIP2MediaPlayer).                    *)
(*                                                                         *)
(* Every await of the source is a step boundary: an action runs the code   *)
(* from one await to the next.  The device client (python_sonycisip2) is   *)
(* the environment: the result of connect() / get_feature() / set_feature()*)
(* is drawn from the outcomes the client can produce.                      *)
(***************************************************************************)
EXTENDS Integers, Sequences, FiniteSets, TLC

VARIABLES
    net,            \* environment: "up" when connect() would succeed, else "down"
    is_connected,   \* controller.is_connected
    tc,             \* the running try_connect call (one at a time)
    gm,             \* the running try_get_mac_address call
    setup,          \* async_setup / async_setup_entry / async_unload_entry
    mon,            \* the check_connection_and_reconnect task
    hass_data,      \* hass.data: whether DOMAIN is present, and the keys under it
    call,           \* the latest call made on the client, and by whom
    ent,            \* zone -> fields of its SonyCISIP2MediaPlayer
    boot,           \* zone -> position in async_added_to_hass / retrieve_initial_states
    callbacks,      \* the client's registered notification callbacks (by zone)
    dev,            \* the receiver's feature table: feature key -> value
    last,           \* the latest operation on the zone entities and what it emitted
    nevents         \* notifications delivered and commands issued so far

supVars  == <<net, is_connected, tc, gm, setup, mon, hass_data, call>>
zoneVars == <<ent, boot, callbacks, dev, last, nevents>>
vars     == <<net, is_connected, tc, gm, setup, mon, hass_data, call,
              ent, boot, callbacks, dev, last, nevents>>

----------------------------------------------------------------------------
(* Bounds of the model and constants of the program *)

\* try_connect(controller, max_retries=3, delay=1), try_get_mac_address(..., max_retries=3, delay=1)
DefaultMaxRetries == 3
DefaultDelay == 1
\* delay *= 2
BackoffFactor == 2

\* largest max_retries and delay argument tried when a retry function is run on its own
MaxRetries == 3
MaxDelay == 2

----------------------------------------------------------------------------
(* try_connect *)

\* what one `await controller.connect()` can do: return True, return False, raise
ConnectOutcomes == IF net = "up" THEN {"true"} ELSE {"false", "raise"}

TcIdle ==
    [caller |-> "none", pc |-> "idle", attempt |-> 0, max_retries |-> 0, delay |-> 0,
     outcomes |-> <<>>, waits |-> <<>>, result |-> FALSE]

\* entry of try_connect: attempt = 1, nothing called yet
TcStart(caller, n, d) ==
    [caller |-> caller, pc |-> "connect", attempt |-> 1, max_retries |-> n, delay |-> d,
     outcomes |-> <<>>, waits |-> <<>>, result |-> FALSE]

\* a mutant of TcAfterConnect: no try/except around connect()
TcAfterConnectNoExcept(t, outcome) ==
    LET u == [t EXCEPT !.outcomes = Append(@, outcome)] IN
    IF outcome = "true" THEN [u EXCEPT !.pc = "returned", !.result = TRUE]
    ELSE IF outcome = "raise" THEN [u EXCEPT !.pc = "raised"]
    ELSE IF t.attempt < t.max_retries THEN [u EXCEPT !.pc = "sleep"]
    ELSE [u EXCEPT !.pc = "returned", !.result = FALSE]

\* one loop body of try_connect up to its next await: connect() returned `outcome`
TcAfterConnect(t, outcome) ==
    LET u == [t EXCEPT !.outcomes = Append(@, outcome)] IN
    IF outcome = "true" THEN [u EXCEPT !.pc = "returned", !.result = TRUE]
    ELSE \* False, or an Exception that is caught and logged
         IF t.attempt < t.max_retries THEN [u EXCEPT !.pc = "sleep"]
         ELSE [u EXCEPT !.pc = "returned", !.result = FALSE]

\* a mutant of TcAfterSleep: the delay is not doubled
TcAfterSleepConstant(t) ==
    [t EXCEPT !.pc = "connect", !.waits = Append(@, t.delay), !.attempt = t.attempt + 1]

\* await asyncio.sleep(delay); delay *= 2; next attempt
TcAfterSleep(t) ==
    [t EXCEPT !.pc = "connect", !.waits = Append(@, t.delay),
              !.delay = t.delay * BackoffFactor, !.attempt = t.attempt + 1]

TryConnectAttempt ==
    /\ tc.pc = "connect"
    /\ \E outcome \in ConnectOutcomes :
          /\ tc' = TcAfterConnect(tc, outcome)
          /\ is_connected' = IF outcome = "true" THEN TRUE ELSE is_connected
    /\ call' = [by |-> tc.caller, op |-> "connect", connected |-> is_connected]
    /\ UNCHANGED <<net, gm, setup, mon, hass_data>>
    /\ UNCHANGED zoneVars

TryConnectSleep ==
    /\ tc.pc = "sleep"
    /\ tc' = TcAfterSleep(tc)
    /\ UNCHANGED <<net, is_connected, gm, setup, mon, hass_data, call>>
    /\ UNCHANGED zoneVars

----------------------------------------------------------------------------
(* the network, seen through the client *)

NetUp ==
    /\ net = "down"
    /\ net' = "up"
    /\ UNCHANGED <<is_connected, tc, gm, setup, mon, hass_data, call>>
    /\ UNCHANGED zoneVars

\* the link drops: the client's flag goes false
NetDown ==
    /\ net = "up"
    /\ net' = "down"
    /\ is_connected' = FALSE
    /\ UNCHANGED <<tc, gm, setup, mon, hass_data, call>>
    /\ UNCHANGED zoneVars

----------------------------------------------------------------------------
(* try_get_mac_address *)

\* what one `await controller.get_feature("network.macaddress")` can do: return the
\* MAC, return None / "", raise an Exception, or be cancelled (asyncio.CancelledError)
MacReadOutcomes ==
    IF is_connected THEN {"mac", "empty", "raise", "cancel"} ELSE {"empty", "raise", "cancel"}

TheMac == "ac:9b:0a:00:00:01"
NoMac == ""

GmIdle ==
    [pc |-> "idle", attempt |-> 0, max_retries |-> 0, delay |-> 0,
     reads |-> <<>>, waits |-> <<>>, result |-> NoMac]

GmStart(n, d) ==
    [pc |-> "check", attempt |-> 1, max_retries |-> n, delay |-> d,
     reads |-> <<>>, waits |-> <<>>, result |-> NoMac]

\* the tail of one loop body: `if attempt < max_retries: await asyncio.sleep(delay)`,
\* and `return None` when the loop is over
GmEndOfAttempt(g) ==
    IF g.attempt < g.max_retries THEN [g EXCEPT !.pc = "sleep"]
    ELSE [g EXCEPT !.pc = "returned", !.result = NoMac]

\* a mutant of GmAfterRead: no `except asyncio.CancelledError`
GmAfterReadCancelPropagates(g, outcome) ==
    LET h == [g EXCEPT !.reads = Append(@, outcome)] IN
    IF outcome = "mac" THEN [h EXCEPT !.pc = "returned", !.result = TheMac]
    ELSE IF outcome = "cancel" THEN [h EXCEPT !.pc = "cancelled"]
    ELSE GmEndOfAttempt(h)

\* the read of network.macaddress returned `outcome`
GmAfterRead(g, outcome) ==
    LET h == [g EXCEPT !.reads = Append(@, outcome)] IN
    IF outcome = "mac" THEN [h EXCEPT !.pc = "returned", !.result = TheMac]
    ELSE IF outcome = "cancel"
         THEN \* except asyncio.CancelledError: its own sleep, then the common tail
              IF g.attempt < g.max_retries THEN [h EXCEPT !.pc = "sleep_cancelled"]
              ELSE GmEndOfAttempt(h)
    ELSE \* empty value, or an Exception that is caught and logged
         GmEndOfAttempt(h)

\* the sleep inside `except asyncio.CancelledError`, then on to the common tail
GmAfterSleepCancelled(g) ==
    GmEndOfAttempt([g EXCEPT !.waits = Append(@, g.delay), !.delay = g.delay * BackoffFactor])

\* the sleep of the common tail, then the next attempt
GmAfterSleep(g) ==
    [g EXCEPT !.pc = "check", !.waits = Append(@, g.delay),
              !.delay = g.delay * BackoffFactor, !.attempt = g.attempt + 1]

\* `if not controller.is_connected:` reconnect first, else read at once
GetMacCheck ==
    /\ gm.pc = "check"
    /\ IF ~is_connected
       THEN /\ tc' = TcStart("mac", DefaultMaxRetries, DefaultDelay)
            /\ gm' = [gm EXCEPT !.pc = "connecting"]
       ELSE /\ gm' = [gm EXCEPT !.pc = "read"]
            /\ tc' = tc
    /\ UNCHANGED <<net, is_connected, setup, mon, hass_data, call>>
    /\ UNCHANGED zoneVars

\* try_connect came back inside try_get_mac_address
GetMacReconnected ==
    /\ gm.pc = "connecting"
    /\ tc.caller = "mac"
    /\ tc.pc = "returned"
    /\ gm' = IF tc.result THEN [gm EXCEPT !.pc = "read"] ELSE GmEndOfAttempt(gm)
    /\ tc' = TcIdle
    /\ UNCHANGED <<net, is_connected, setup, mon, hass_data, call>>
    /\ UNCHANGED zoneVars

GetMacRead ==
    /\ gm.pc = "read"
    /\ \E outcome \in MacReadOutcomes : gm' = GmAfterRead(gm, outcome)
    /\ call' = [by |-> "mac", op |-> "get_feature", connected |-> is_connected]
    /\ UNCHANGED <<net, is_connected, tc, setup, mon, hass_data>>
    /\ UNCHANGED zoneVars

GetMacSleepCancelled ==
    /\ gm.pc = "sleep_cancelled"
    /\ gm' = GmAfterSleepCancelled(gm)
    /\ UNCHANGED <<net, is_connected, tc, setup, mon, hass_data, call>>
    /\ UNCHANGED zoneVars

GetMacSleep ==
    /\ gm.pc = "sleep"
    /\ gm' = GmAfterSleep(gm)
    /\ UNCHANGED <<net, is_connected, tc, setup, mon, hass_data, call>>
    /\ UNCHANGED zoneVars
----------------------------------------------------------------------------
(* check_connection_and_reconnect: the connection monitor task *)

MonNone == [pc |-> "none", seen |-> TRUE, reconnect |-> "none"]

\* hass.loop.create_task(check_connection_and_reconnect(controller, hass))
MonCreated == [pc |-> "check", seen |-> TRUE, reconnect |-> "none"]

MonitorRunning == mon.pc \in {"check", "connecting", "sleeping"}

\* a mutant of MonNeedsReconnect: the loop reconnects on every wake-up
MonNeedsReconnectAlways(flag) == TRUE

\* `if not controller.is_connected:`
MonNeedsReconnect(flag) == ~flag

\* a mutant of MonAfterReconnect: the loop ends when the reconnection failed
MonAfterReconnectGivesUp(m, ok) ==
    IF ok THEN [m EXCEPT !.pc = "sleeping", !.reconnect = "ok"]
    ELSE [m EXCEPT !.pc = "ended", !.reconnect = "failed"]

\* try_connect came back: log either way, then `await asyncio.sleep(CONNECTION_CHECK_INTERVAL)`
MonAfterReconnect(m, ok) ==
    [m EXCEPT !.pc = "sleeping", !.reconnect = IF ok THEN "ok" ELSE "failed"]

\* top of `while True:`: read the flag, reconnect only when it is false
MonitorCheck ==
    /\ mon.pc = "check"
    /\ IF MonNeedsReconnect(is_connected)
       THEN /\ tc' = TcStart("monitor", DefaultMaxRetries, DefaultDelay)
            /\ mon' = [mon EXCEPT !.pc = "connecting", !.seen = is_connected]
       ELSE /\ mon' = [mon EXCEPT !.pc = "sleeping", !.seen = is_connected]
            /\ tc' = tc
    /\ UNCHANGED <<net, is_connected, gm, setup, hass_data, call>>
    /\ UNCHANGED zoneVars

MonitorReconnected ==
    /\ mon.pc = "connecting"
    /\ tc.caller = "monitor"
    /\ tc.pc = "returned"
    /\ mon' = MonAfterReconnect(mon, tc.result)
    /\ tc' = TcIdle
    /\ UNCHANGED <<net, is_connected, gm, setup, hass_data, call>>
    /\ UNCHANGED zoneVars

\* the sleep of CONNECTION_CHECK_INTERVAL seconds is over
MonitorWake ==
    /\ mon.pc = "sleeping"
    /\ mon' = [mon EXCEPT !.pc = "check"]
    /\ UNCHANGED <<net, is_connected, tc, gm, setup, hass_data, call>>
    /\ UNCHANGED zoneVars

----------------------------------------------------------------------------
(* async_setup (configuration.yaml) and async_setup_entry (config entry) *)

StoredKeys == {"controller", "mac_address", "sony_hwversion", "sony_swversion",
               "connection_monitor"}

\* the keys async_setup_entry stores; async_setup stores no "device"
KeysStoredBy(via) == IF via = "entry" THEN StoredKeys \cup {"device"} ELSE StoredKeys

SetupIdle == [pc |-> "init", via |-> "none", mac |-> NoMac, forwarded |-> FALSE]

\* initialize_hass_data; SonyCISIP2(host, port); `await try_connect(controller)`
SetupStart ==
    /\ setup.pc = "init"
    /\ \E via \in {"yaml", "entry"} : setup' = [setup EXCEPT !.pc = "connecting", !.via = via]
    /\ hass_data' = [domain |-> TRUE, keys |-> {}]
    /\ tc' = TcStart("setup", DefaultMaxRetries, DefaultDelay)
    /\ UNCHANGED <<net, is_connected, gm, mon, call>>
    /\ UNCHANGED zoneVars

\* a mutant of SetupConnected: a failed try_connect makes setup raise
SetupConnectedRaises ==
    /\ setup.pc = "connecting"
    /\ tc.caller = "setup"
    /\ tc.pc = "returned"
    /\ IF tc.result
       THEN /\ setup' = [setup EXCEPT !.pc = "mac"]
            /\ gm' = GmStart(DefaultMaxRetries, DefaultDelay)
       ELSE /\ setup' = [setup EXCEPT !.pc = "raised"]
            /\ gm' = gm
    /\ tc' = TcIdle
    /\ UNCHANGED <<net, is_connected, mon, hass_data, call>>
    /\ UNCHANGED zoneVars

\* `if not await try_connect(controller): return True`, else on to the MAC address
SetupConnected ==
    /\ setup.pc = "connecting"
    /\ tc.caller = "setup"
    /\ tc.pc = "returned"
    /\ IF tc.result
       THEN /\ setup' = [setup EXCEPT !.pc = "mac"]
            /\ gm' = GmStart(DefaultMaxRetries, DefaultDelay)
       ELSE /\ setup' = [setup EXCEPT !.pc = "returned"]
            /\ gm' = gm
    /\ tc' = TcIdle
    /\ UNCHANGED <<net, is_connected, mon, hass_data, call>>
    /\ UNCHANGED zoneVars

\* try_get_mac_address came back; without a MAC, look through device_tracker states:
\* `found` says whether one has this host's ip and a mac_address
SetupMac ==
    /\ setup.pc = "mac"
    /\ gm.pc = "returned"
    /\ IF gm.result # NoMac
       THEN setup' = [setup EXCEPT !.pc = "versions", !.mac = gm.result]
       ELSE \E found \in BOOLEAN :
              setup' = IF found THEN [setup EXCEPT !.pc = "versions", !.mac = TheMac]
                       ELSE [setup EXCEPT !.pc = "returned"]
    /\ gm' = GmIdle
    /\ UNCHANGED <<net, is_connected, tc, mon, hass_data, call>>
    /\ UNCHANGED zoneVars

\* the reads of system.modeltype and system.version, then: store the controller and
\* the identity, create the monitor task, forward to the media_player platform
SetupFinish ==
    /\ setup.pc = "versions"
    /\ \E outcome \in {"ok", "raise"} :
         IF outcome = "ok"
         THEN /\ hass_data' = [hass_data EXCEPT !.keys = @ \cup KeysStoredBy(setup.via)]
              /\ mon' = MonCreated
              /\ setup' = [setup EXCEPT !.pc = "returned", !.forwarded = TRUE]
         ELSE /\ setup' = [setup EXCEPT !.pc = "raised"]
              /\ UNCHANGED <<hass_data, mon>>
    /\ call' = [by |-> "setup", op |-> "get_feature", connected |-> is_connected]
    /\ UNCHANGED <<net, is_connected, tc, gm>>
    /\ UNCHANGED zoneVars

\* async_unload_entry: cancel and drop the monitor task, drop the stored keys, forward
\* the unload; `ok` is what async_forward_entry_unload returns
Unload ==
    /\ setup.pc = "returned"
    /\ setup.via = "entry"
    /\ \E ok \in BOOLEAN :
         hass_data' = IF ok THEN [domain |-> FALSE, keys |-> {}]
                      ELSE [hass_data EXCEPT !.keys = @ \ StoredKeys]
    /\ IF "connection_monitor" \in hass_data.keys
       THEN /\ mon' = [mon EXCEPT !.pc = "cancelled"]
            /\ tc' = IF tc.caller = "monitor" THEN TcIdle ELSE tc
       ELSE UNCHANGED <<mon, tc>>
    /\ setup' = [setup EXCEPT !.pc = "unloaded"]
    /\ UNCHANGED <<net, is_connected, gm, call>>
    /\ UNCHANGED zoneVars

----------------------------------------------------------------------------
(* Python numbers: int, and float as an IEEE 754 double.  A double x >= 0 is   *)
(* kept as [m, e], standing for m * 2^e, where the integer m < 2^53 is written *)
(* in digits of base LimbBase, most significant first (<<>> is 0).             *)

\* bits of the significand of a double
Precision == 53
\* 2^LimbBits = LimbBase: the digits of a long integer
LimbBits == 10
LimbBase == 1024

\* number of binary digits of a natural number below 2^30
BitLen(n) == IF n = 0 THEN 0 ELSE CHOOSE k \in 1..30 : 2^(k - 1) <= n /\ n < 2^k

RECURSIVE ToLimbs(_)
ToLimbs(n) == IF n = 0 THEN <<>> ELSE Append(ToLimbs(n \div LimbBase), n % LimbBase)

RECURSIVE ValueOfLimbs(_)
ValueOfLimbs(limbs) ==
    IF limbs = <<>> THEN 0
    ELSE LimbBase * ValueOfLimbs(SubSeq(limbs, 1, Len(limbs) - 1)) + limbs[Len(limbs)]

RECURSIVE StripLimbs(_)
StripLimbs(limbs) ==
    IF limbs # <<>> /\ limbs[1] = 0 THEN StripLimbs(Tail(limbs)) ELSE limbs

BitLenOfLimbs(limbs) ==
    IF limbs = <<>> THEN 0 ELSE (Len(limbs) - 1) * LimbBits + BitLen(limbs[1])

RECURSIVE DivFrom(_, _, _, _, _)
\* schoolbook division of a long integer by a small divisor, from digit i on
DivFrom(limbs, d, i, rem, q) ==
    IF i > Len(limbs) THEN [q |-> q, r |-> rem]
    ELSE DivFrom(limbs, d, i + 1, (rem * LimbBase + limbs[i]) % d,
                 Append(q, (rem * LimbBase + limbs[i]) \div d))

DivSmall(limbs, d) == DivFrom(limbs, d, 1, 0, <<>>)

RECURSIVE MulAddFrom(_, _, _, _, _)
\* limbs * k + carry, from the last digit towards the first
MulAddFrom(limbs, k, i, carry, acc) ==
    IF i = 0 THEN ToLimbs(carry) \o acc
    ELSE MulAddFrom(limbs, k, i - 1, (limbs[i] * k + carry) \div LimbBase,
                    <<(limbs[i] * k + carry) % LimbBase>> \o acc)

MulSmall(limbs, k) == MulAddFrom(limbs, k, Len(limbs), 0, <<>>)
AddSmall(limbs, k) == MulAddFrom(limbs, 1, Len(limbs), k, <<>>)

\* limbs * 2^k
ShiftLeft(limbs, k) ==
    MulSmall(limbs, 2^(k % LimbBits)) \o [i \in 1..(k \div LimbBits) |-> 0]

\* round-to-nearest, ties-to-even, to Precision bits, of the long integer
\* `limbs` plus a fraction that is non-zero iff `sticky`: limbs ~ m * 2^e
RoundToDouble(limbs, sticky) ==
    LET sh == BitLenOfLimbs(limbs) - Precision IN
    IF sh <= 0 THEN [m |-> limbs, e |-> 0]
    ELSE LET d    == DivSmall(limbs, 2^sh)
             q    == StripLimbs(d.q)
             half == 2^(sh - 1)
             odd  == q[Len(q)] % 2 = 1
             up   == \/ d.r > half
                     \/ d.r = half /\ (sticky \/ odd)
         IN [m |-> IF up THEN AddSmall(q, 1) ELSE q, e |-> sh]

\* a / b for Python ints a >= 0, b > 0: the double nearest to the quotient
PyTrueDiv(a, b) ==
    IF a = 0 THEN [m |-> <<>>, e |-> 0]
    ELSE LET scale == Precision + 2 + BitLen(b) - BitLen(a)
             d == DivSmall(ShiftLeft(ToLimbs(a), scale), b)
             r == RoundToDouble(StripLimbs(d.q), d.r # 0)
         IN [m |-> r.m, e |-> r.e - scale]

\* x * k for a double x >= 0 and a small Python int k: the product, rounded
PyFloatMul(x, k) ==
    LET r == RoundToDouble(StripLimbs(MulSmall(x.m, k)), FALSE)
    IN [m |-> r.m, e |-> x.e + r.e]

\* int(x) for a double 0 <= x < 2^30: truncation
PyIntOfFloat(x) ==
    IF x.e >= 0 THEN ValueOfLimbs(x.m) * 2^(x.e)
    ELSE LET drop == (0 - x.e) \div LimbBits
             keep == Len(x.m) - drop
         IN IF keep <= 0 THEN 0
            ELSE ValueOfLimbs(StripLimbs(
                     DivSmall(SubSeq(x.m, 1, keep), 2^((0 - x.e) % LimbBits)).q))

----------------------------------------------------------------------------
(* Python values, feature keys, notification messages *)

NoneVal == <<"none">>
StrVal(s) == <<"str", s>>
IntVal(n) == <<"int", n>>
BoolVal(b) == <<"bool", b>>
\* the float n / d (the double PyTrueDiv(n, d)), kept as the two ints it comes from
FloatVal(n, d) == <<"float", n, d>>

\* value == 'literal'
PyEqStr(v, literal) == v[1] = "str" /\ v[2] = literal
\* `if value:`
Truthy(v) ==
    CASE v[1] = "none" -> FALSE
      [] v[1] = "str" -> v[2] # ""
      [] v[1] = "int" -> v[2] # 0
      [] v[1] = "bool" -> v[2]
      [] OTHER -> v[2] # 0
\* whether int(value) returns; it raises ValueError / TypeError otherwise
IntConvertible(v) == v[1] = "int"
\* isinstance(value, (int, float))
IsNumber(v) == v[1] \in {"int", "float"}

\* ZONES
ZONES == <<"main", "zone2", "zone3">>
Zones == {ZONES[i] : i \in 1..Len(ZONES)}

\* A feature key "a.b" is the sequence of its dot-separated parts <<"a", "b">>.
\* f"{feature_prefix}{name}" with feature_prefix = f"{zone}." ("main." for main)
Feature(zone, name) == <<zone, name>>
\* zone_prefix: the zone's name followed by a dot
ZonePrefix(zone) == <<zone>>
\* feature.startswith(zone_prefix)
StartsWith(feature, prefix) ==
    /\ Len(feature) > Len(prefix)
    /\ SubSeq(feature, 1, Len(prefix)) = prefix

RECURSIVE Replace(_, _)
\* feature.replace(zone_prefix, ""): every occurrence of the prefix goes, i.e.
\* every part equal to the zone's name that a dot follows
Replace(feature, prefix) ==
    IF Len(feature) <= 1 THEN feature
    ELSE IF feature[1] = prefix[1] THEN Replace(Tail(feature), prefix)
    ELSE <<feature[1]>> \o Replace(Tail(feature), prefix)

SoundField == <<"audio", "soundfield">>

Message(feature, value) == [feature |-> feature, value |-> value]

\* the notifications the receiver sends in this model: features of each zone, a
\* power value that is neither on nor off, a volume that is no number, a feature
\* the entity does not map, a zone without an entity, the unit-wide soundfield
EventsSent ==
    { Message(Feature("main", "power"), StrVal("standby")),
      Message(Feature("main", "input"), StrVal("bd")),
      Message(Feature("main", "mute"), StrVal("on")),
      Message(Feature("main", "volumestep"), IntVal(57)),
      Message(Feature("main", "volumestep"), StrVal("max")),
      Message(Feature("main", "volumedb"), IntVal(0)),
      Message(Feature("zone2", "power"), StrVal("on")),
      Message(Feature("zone2", "mute"), StrVal("on")),
      Message(Feature("zone3", "power"), StrVal("on")),
      Message(Feature("zone4", "power"), StrVal("on")),
      Message(SoundField, StrVal("2ch")) }

----------------------------------------------------------------------------
(* SonyCISIP2MediaPlayer: fields, handle_notification *)

\* __init__
\* a mutant of EntNew: the entity starts in the 'db' volume display mode
EntNewDb ==
    [state |-> NoneVal, source |-> NoneVal, sound_mode |-> NoneVal, mute |-> NoneVal,
     volume |-> NoneVal, volumedisplay_mode |-> "db"]

EntNew ==
    [state |-> NoneVal, source |-> NoneVal, sound_mode |-> NoneVal, mute |-> NoneVal,
     volume |-> NoneVal, volumedisplay_mode |-> "step"]

\* a mutant of HandleNotification: no check of the zone prefix, the first part of
\* the key is dropped whatever it is
HandleNotificationAnyPrefix(e, zone, msg) ==
    LET feature_key == Tail(msg.feature) IN
    CASE feature_key = <<"power">> ->
           [e |-> [e EXCEPT !.state = IF PyEqStr(msg.value, "on") THEN StrVal("on") ELSE StrVal("off")],
            raised |-> FALSE]
      [] feature_key = <<"input">> -> [e |-> [e EXCEPT !.source = msg.value], raised |-> FALSE]
      [] feature_key = <<"mute">> ->
           [e |-> [e EXCEPT !.mute = BoolVal(PyEqStr(msg.value, "on"))], raised |-> FALSE]
      [] feature_key = <<"volumestep">> ->
           IF IntConvertible(msg.value)
           THEN [e |-> [e EXCEPT !.volume = FloatVal(msg.value[2], 100)], raised |-> FALSE]
           ELSE [e |-> e, raised |-> TRUE]
      [] OTHER -> [e |-> e, raised |-> FALSE]

\* a mutant of HandleNotification: a mute event also marks the zone as on
HandleNotificationMuteSetsPower(e, zone, msg) ==
    IF StartsWith(msg.feature, ZonePrefix(zone))
    THEN LET feature_key == Replace(msg.feature, ZonePrefix(zone)) IN
         CASE feature_key = <<"power">> ->
                [e |-> [e EXCEPT !.state = IF PyEqStr(msg.value, "on") THEN StrVal("on") ELSE StrVal("off")],
                 raised |-> FALSE]
           [] feature_key = <<"input">> -> [e |-> [e EXCEPT !.source = msg.value], raised |-> FALSE]
           [] feature_key = <<"mute">> ->
                [e |-> [e EXCEPT !.mute = BoolVal(PyEqStr(msg.value, "on")), !.state = StrVal("on")],
                 raised |-> FALSE]
           [] feature_key = <<"volumestep">> ->
                IF IntConvertible(msg.value)
                THEN [e |-> [e EXCEPT !.volume = FloatVal(msg.value[2], 100)], raised |-> FALSE]
                ELSE [e |-> e, raised |-> TRUE]
           [] OTHER -> [e |-> e, raised |-> FALSE]
    ELSE [e |-> e, raised |-> FALSE]

\* a mutant of HandleNotification: audio.soundfield updates the sound mode
HandleNotificationTracksSoundfield(e, zone, msg) ==
    IF msg.feature = SoundField THEN [e |-> [e EXCEPT !.sound_mode = msg.value], raised |-> FALSE]
    ELSE IF StartsWith(msg.feature, ZonePrefix(zone))
    THEN LET feature_key == Replace(msg.feature, ZonePrefix(zone)) IN
         CASE feature_key = <<"power">> ->
                [e |-> [e EXCEPT !.state = IF PyEqStr(msg.value, "on") THEN StrVal("on") ELSE StrVal("off")],
                 raised |-> FALSE]
           [] feature_key = <<"input">> -> [e |-> [e EXCEPT !.source = msg.value], raised |-> FALSE]
           [] feature_key = <<"mute">> ->
                [e |-> [e EXCEPT !.mute = BoolVal(PyEqStr(msg.value, "on"))], raised |-> FALSE]
           [] feature_key = <<"volumestep">> ->
                IF IntConvertible(msg.value)
                THEN [e |-> [e EXCEPT !.volume = FloatVal(msg.value[2], 100)], raised |-> FALSE]
                ELSE [e |-> e, raised |-> TRUE]
           [] OTHER -> [e |-> e, raised |-> FALSE]
    ELSE [e |-> e, raised |-> FALSE]

\* handle_notification of the entity of `zone` on message msg: the entity's fields
\* afterwards, and whether the handler raised (int(value) on a non-number)
HandleNotification(e, zone, msg) ==
    IF StartsWith(msg.feature, ZonePrefix(zone))
    THEN LET feature_key == Replace(msg.feature, ZonePrefix(zone)) IN
         CASE feature_key = <<"power">> ->
                [e |-> [e EXCEPT !.state = IF PyEqStr(msg.value, "on") THEN StrVal("on") ELSE StrVal("off")],
                 raised |-> FALSE]
           [] feature_key = <<"input">> -> [e |-> [e EXCEPT !.source = msg.value], raised |-> FALSE]
           [] feature_key = <<"mute">> ->
                [e |-> [e EXCEPT !.mute = BoolVal(PyEqStr(msg.value, "on"))], raised |-> FALSE]
           [] feature_key = <<"volumestep">> ->
                IF IntConvertible(msg.value)
                THEN [e |-> [e EXCEPT !.volume = FloatVal(msg.value[2], 100)], raised |-> FALSE]
                ELSE [e |-> e, raised |-> TRUE]
           [] OTHER -> [e |-> e, raised |-> FALSE]
    ELSE [e |-> e, raised |-> FALSE]

----------------------------------------------------------------------------
(* async_added_to_hass and retrieve_initial_states *)

\* the receiver's features as the platform is set up
DevInit ==
    (Feature("main", "power")       :> StrVal("on")) @@
    (Feature("main", "input")       :> StrVal("tv")) @@
    (Feature("main", "volumestep")  :> IntVal(29)) @@
    (Feature("main", "mute")        :> StrVal("off")) @@
    (Feature("zone2", "power")      :> StrVal("off")) @@
    (Feature("zone2", "input")      :> StrVal("dvd")) @@
    (Feature("zone2", "volumestep") :> IntVal(50)) @@
    (Feature("zone2", "mute")       :> StrVal("on")) @@
    (Feature("zone3", "power")      :> StrVal("off")) @@
    (Feature("zone3", "input")      :> StrVal("source")) @@
    (Feature("zone3", "volumestep") :> NoneVal) @@
    (Feature("zone3", "mute")       :> StrVal("off")) @@
    (SoundField                     :> StrVal("dolby"))

\* get_feature(key) when it returns: the value, None for a feature not there
GetFeature(key) == IF key \in DOMAIN dev THEN dev[key] ELSE NoneVal

BootNew == [pc |-> "new", volumestep |-> NoneVal, reads |-> <<>>]

ReadingPcs == {"power", "input", "volumestep", "soundfield", "mute"}

\* the key whose get_feature the entity awaits at pc
KeyAt(zone, pc) == IF pc = "soundfield" THEN SoundField ELSE Feature(zone, pc)

\* a mutant of CallbacksAfterRegister: only the main zone's entity registers
CallbacksAfterRegisterMainOnly(cbs, zone) == IF zone = "main" THEN cbs \cup {zone} ELSE cbs

\* self._controller.register_notification_callback(self.handle_notification): the
\* client keeps every callback registered and calls each one with every message
CallbacksAfterRegister(cbs, zone) == cbs \cup {zone}

\* a mutant of AfterInitialRead: a power value that is not 'on' counts as 'off'
AfterInitialReadUnknownIsOff(e, b, v) ==
    CASE b.pc = "power" ->
           IF PyEqStr(v, "on") THEN [e |-> [e EXCEPT !.state = StrVal("on")], b |-> [b EXCEPT !.pc = "input"]]
           ELSE [e |-> [e EXCEPT !.state = StrVal("off")], b |-> [b EXCEPT !.pc = "done"]]
      [] b.pc = "input" -> [e |-> [e EXCEPT !.source = v], b |-> [b EXCEPT !.pc = "volumestep"]]
      [] b.pc = "volumestep" -> [e |-> e, b |-> [b EXCEPT !.pc = "soundfield", !.volumestep = v]]
      [] b.pc = "soundfield" -> [e |-> [e EXCEPT !.sound_mode = v], b |-> [b EXCEPT !.pc = "mute"]]
      [] b.pc = "mute" ->
           [e |-> [e EXCEPT !.mute = BoolVal(PyEqStr(v, "on")),
                            !.volume = IF IsNumber(b.volumestep)
                                       THEN FloatVal(b.volumestep[2], 100) ELSE NoneVal],
            b |-> [b EXCEPT !.pc = "done"]]

\* a mutant of AfterInitialRead: audio.soundfield is read before the volume step
AfterInitialReadSoundfieldFirst(e, b, v) ==
    CASE b.pc = "power" ->
           IF PyEqStr(v, "on") THEN [e |-> [e EXCEPT !.state = StrVal("on")], b |-> [b EXCEPT !.pc = "input"]]
           ELSE IF PyEqStr(v, "off") THEN [e |-> [e EXCEPT !.state = StrVal("off")], b |-> [b EXCEPT !.pc = "done"]]
           ELSE [e |-> e, b |-> [b EXCEPT !.pc = "done"]]
      [] b.pc = "input" -> [e |-> [e EXCEPT !.source = v], b |-> [b EXCEPT !.pc = "soundfield"]]
      [] b.pc = "soundfield" -> [e |-> [e EXCEPT !.sound_mode = v], b |-> [b EXCEPT !.pc = "volumestep"]]
      [] b.pc = "volumestep" -> [e |-> e, b |-> [b EXCEPT !.pc = "mute", !.volumestep = v]]
      [] b.pc = "mute" ->
           [e |-> [e EXCEPT !.mute = BoolVal(PyEqStr(v, "on")),
                            !.volume = IF IsNumber(b.volumestep)
                                       THEN FloatVal(b.volumestep[2], 100) ELSE NoneVal],
            b |-> [b EXCEPT !.pc = "done"]]

\* retrieve_initial_states from the return of one get_feature to the next await:
\* the read at b.pc returned v
AfterInitialRead(e, b, v) ==
    CASE b.pc = "power" ->
           IF PyEqStr(v, "on") THEN [e |-> [e EXCEPT !.state = StrVal("on")], b |-> [b EXCEPT !.pc = "input"]]
           ELSE IF PyEqStr(v, "off") THEN [e |-> [e EXCEPT !.state = StrVal("off")], b |-> [b EXCEPT !.pc = "done"]]
           ELSE [e |-> e, b |-> [b EXCEPT !.pc = "done"]]
      [] b.pc = "input" -> [e |-> [e EXCEPT !.source = v], b |-> [b EXCEPT !.pc = "volumestep"]]
      [] b.pc = "volumestep" -> [e |-> e, b |-> [b EXCEPT !.pc = "soundfield", !.volumestep = v]]
      [] b.pc = "soundfield" -> [e |-> [e EXCEPT !.sound_mode = v], b |-> [b EXCEPT !.pc = "mute"]]
      [] b.pc = "mute" ->
           [e |-> [e EXCEPT !.mute = BoolVal(PyEqStr(v, "on")),
                            !.volume = IF IsNumber(b.volumestep)
                                       THEN FloatVal(b.volumestep[2], 100) ELSE NoneVal],
            b |-> [b EXCEPT !.pc = "done"]]

----------------------------------------------------------------------------
(* the zone entities before the platform is set up *)

NoOp == [op |-> "none", zone |-> "none", arg |-> NoneVal, key |-> <<>>, value |-> NoneVal,
         raised |-> FALSE]

ZoneInit ==
    /\ ent = [z \in Zones |-> EntNew]
    /\ boot = [z \in Zones |-> BootNew]
    /\ callbacks = {}
    /\ dev = DevInit
    /\ last = NoOp
    /\ nevents = 0

----------------------------------------------------------------------------
(* the vocabulary tables: dicts, as the sequence of their (key, value) items *)

SOURCE_MAPPINGS ==
    << <<"dvd", "BD/DVD">>, <<"sat", "SAT/CATV">>, <<"stb", "STB">>, <<"fm", "FM">>,
       <<"catv", "SAT/CATV">>, <<"aux", "AUX">>, <<"tv", "TV">>, <<"game", "GAME">>,
       <<"video", "VIDEO">>, <<"sacd", "CD/SACD">>, <<"am", "AM">>, <<"tuner", "TUNER">>,
       <<"bd", "BD/DVD">>, <<"cd", "CD/SACD">> >>

REVERSE_SOURCE_MAPPINGS ==
    << <<"BD/DVD", "bd">>, <<"SAT/CATV", "sat">>, <<"STB", "stb">>, <<"FM", "fm">>,
       <<"AUX", "aux">>, <<"TV", "tv">>, <<"GAME", "game">>, <<"VIDEO", "video">>,
       <<"CD/SACD", "cd">>, <<"AM", "am">>, <<"TUNER", "tuner">> >>

SOUND_MODE_MAP ==
    << <<"2ch Stereo", "2ch">>, <<"Analog Direct", "direct">>,
       <<"Auto Format Decode", "afd">>, <<"Multi-Channel Stereo", "multi">>,
       <<"Dolby Surround", "dolby">>, <<"DTS Neural:X", "neuralx">> >>

\* the value of the first item of the table whose key is k, None when there is none
\* (dict.get, and the `for ... in items(): if x == key` scans)
Lookup(table, k) ==
    IF \E i \in 1..Len(table) : table[i][1] = k
    THEN LET i == CHOOSE j \in 1..Len(table) :
                    table[j][1] = k /\ \A h \in 1..(j - 1) : table[h][1] # k
         IN StrVal(table[i][2])
    ELSE NoneVal

\* a mutant of Source: the raw token is shown
SourceRaw(e) == e.source

\* the source property: None, 'MAIN SOURCE' for the token 'source', the readable
\* name of a mapped token, else the raw token
Source(e) ==
    IF e.source = NoneVal THEN NoneVal
    ELSE IF PyEqStr(e.source, "source") THEN StrVal("MAIN SOURCE")
    ELSE IF e.source[1] = "str" /\ Lookup(SOURCE_MAPPINGS, e.source[2]) # NoneVal
         THEN Lookup(SOURCE_MAPPINGS, e.source[2])
    ELSE e.source

\* the sound_mode property: None, the readable name of the first item of
\* SOUND_MODE_MAP whose command the entity holds, else the raw value
SoundMode(e) ==
    IF e.sound_mode = NoneVal THEN NoneVal
    ELSE IF \E i \in 1..Len(SOUND_MODE_MAP) : StrVal(SOUND_MODE_MAP[i][2]) = e.sound_mode
    THEN LET i == CHOOSE j \in 1..Len(SOUND_MODE_MAP) :
                    /\ StrVal(SOUND_MODE_MAP[j][2]) = e.sound_mode
                    /\ \A h \in 1..(j - 1) : StrVal(SOUND_MODE_MAP[h][2]) # e.sound_mode
         IN StrVal(SOUND_MODE_MAP[i][1])
    ELSE e.sound_mode

\* the source_list property, as a set
SourceList(zone) ==
    LET names == {SOURCE_MAPPINGS[i][2] : i \in 1..Len(SOURCE_MAPPINGS)} IN
    IF zone \in {"zone2", "zone3"} THEN {"MAIN SOURCE"} \cup names ELSE names

\* the sound_mode_list property, as a set
SoundModeList == {SOUND_MODE_MAP[i][1] : i \in 1..Len(SOUND_MODE_MAP)}

----------------------------------------------------------------------------
(* the commands of SonyCISIP2MediaPlayer *)

NoEmit == [key |-> <<>>, value |-> NoneVal]
Emit(key, value) == [key |-> key, value |-> value]

\* a mutant of EntAfterCommand: a command writes the state it asks for at once
EntAfterCommandOptimistic(e, op, arg) ==
    CASE op = "turn_on" -> [e EXCEPT !.state = StrVal("on")]
      [] op = "turn_off" -> [e EXCEPT !.state = StrVal("off")]
      [] op = "mute_volume" -> [e EXCEPT !.mute = arg]
      [] op = "set_volume_level" -> [e EXCEPT !.volume = arg]
      [] op = "select_source" -> [e EXCEPT !.source = arg]
      [] op = "select_sound_mode" -> [e EXCEPT !.sound_mode = arg]
      [] OTHER -> e

\* the entity's fields after a command: the async_* command methods assign to no
\* field of self
EntAfterCommand(e, op, arg) == e

\* step_volume = int(volume * 100), for volume the float volume[2] / volume[3]
StepVolume(volume) == PyIntOfFloat(PyFloatMul(PyTrueDiv(volume[2], volume[3]), 100))

\* what async_set_volume_level hands to set_feature
SetVolumeEmits(e, zone, volume) ==
    IF e.volumedisplay_mode = "db"
    THEN Emit(Feature(zone, "volumedb"), <<"db", volume>>)
    ELSE IF e.volumedisplay_mode = "step"
    THEN Emit(Feature(zone, "volumestep"), IntVal(StepVolume(volume)))
    ELSE NoEmit

\* a mutant of SourceCommandValue: the first device token that displays as `source`
SourceCommandValueFirstToken(zone, source, main_input) ==
    IF source = "MAIN SOURCE" /\ zone \in {"zone2", "zone3"} THEN main_input
    ELSE IF \E i \in 1..Len(SOURCE_MAPPINGS) : SOURCE_MAPPINGS[i][2] = source
    THEN LET i == CHOOSE j \in 1..Len(SOURCE_MAPPINGS) :
                    /\ SOURCE_MAPPINGS[j][2] = source
                    /\ \A h \in 1..(j - 1) : SOURCE_MAPPINGS[h][2] # source
         IN StrVal(SOURCE_MAPPINGS[i][1])
    ELSE NoneVal

\* a mutant of SourceCommandValue: MAIN SOURCE forwards the source the main
\* entity holds
SourceCommandValueCached(zone, source, main_input) ==
    IF source = "MAIN SOURCE" /\ zone \in {"zone2", "zone3"} THEN ent["main"].source
    ELSE Lookup(REVERSE_SOURCE_MAPPINGS, source)

\* command_value of async_select_source; main_input is what get_feature("main.input")
\* returns
SourceCommandValue(zone, source, main_input) ==
    IF source = "MAIN SOURCE" /\ zone \in {"zone2", "zone3"} THEN main_input
    ELSE Lookup(REVERSE_SOURCE_MAPPINGS, source)

SelectSourceEmits(zone, source, main_input) ==
    LET command_value == SourceCommandValue(zone, source, main_input) IN
    IF Truthy(command_value) THEN Emit(Feature(zone, "input"), command_value) ELSE NoEmit

\* a mutant of SelectSoundModeEmits: a name not in SOUND_MODE_MAP is sent as it is
SelectSoundModeEmitsRaw(sound_mode) ==
    LET command_value == Lookup(SOUND_MODE_MAP, sound_mode) IN
    IF command_value = NoneVal THEN Emit(SoundField, StrVal(sound_mode))
    ELSE Emit(SoundField, command_value)

SelectSoundModeEmits(sound_mode) ==
    LET command_value == Lookup(SOUND_MODE_MAP, sound_mode) IN
    IF command_value = NoneVal THEN NoEmit ELSE Emit(SoundField, command_value)

CommandOps == {"turn_on", "turn_off", "mute_volume", "set_volume_level", "volume_up",
               "volume_down", "select_source", "select_sound_mode"}

\* `last` holds a command that has just been made (until CommandReturns)
CommandPending == last.op \in CommandOps

\* one command on the added entity of `zone`: the set_feature call it makes (if
\* any) returns or raises; `swallowed` says an exception of set_feature is caught.
\* A command method has no code after its await of set_feature, so it is one step.
Command(zone, op, arg, emit, swallowed) ==
    /\ ~CommandPending
    /\ boot[zone].pc # "new"
    /\ \E fails \in BOOLEAN :
         last' = [op |-> op, zone |-> zone, arg |-> arg, key |-> emit.key,
                  value |-> emit.value,
                  raised |-> fails /\ emit.key # <<>> /\ ~swallowed]
    /\ ent' = [ent EXCEPT ![zone] = EntAfterCommand(ent[zone], op, arg)]
    /\ UNCHANGED <<boot, callbacks, dev, nevents>>
    /\ UNCHANGED supVars

TurnOn(zone) ==
    Command(zone, "turn_on", NoneVal, Emit(Feature(zone, "power"), StrVal("on")), FALSE)

TurnOff(zone) ==
    Command(zone, "turn_off", NoneVal, Emit(Feature(zone, "power"), StrVal("off")), FALSE)

MuteVolume(zone, mute) ==
    Command(zone, "mute_volume", BoolVal(mute),
            Emit(Feature(zone, "mute"), StrVal(IF mute THEN "on" ELSE "off")), FALSE)

SetVolumeLevel(zone, volume) ==
    Command(zone, "set_volume_level", volume, SetVolumeEmits(ent[zone], zone, volume), FALSE)

VolumeUp(zone) ==
    Command(zone, "volume_up", NoneVal, Emit(Feature(zone, "volume+"), StrVal("pulse")), FALSE)

VolumeDown(zone) ==
    Command(zone, "volume_down", NoneVal, Emit(Feature(zone, "volume-"), StrVal("pulse")), FALSE)

\* async_select_source; the read of main.input for "MAIN SOURCE" may raise too
SelectSource(zone, source) ==
    \/ Command(zone, "select_source", StrVal(source),
               SelectSourceEmits(zone, source, GetFeature(Feature("main", "input"))), FALSE)
    \/ /\ source = "MAIN SOURCE" /\ zone \in {"zone2", "zone3"}
       /\ ~CommandPending
       /\ boot[zone].pc # "new"
       /\ last' = [op |-> "select_source", zone |-> zone, arg |-> StrVal(source),
                   key |-> <<>>, value |-> NoneVal, raised |-> TRUE]
       /\ UNCHANGED <<ent, boot, callbacks, dev, nevents>>
       /\ UNCHANGED supVars

SelectSoundMode(zone, sound_mode) ==
    Command(zone, "select_sound_mode", StrVal(sound_mode), SelectSoundModeEmits(sound_mode), TRUE)

\* the arguments commands are called with in CommandSpec
VolumeArgs == {FloatVal(0, 100), FloatVal(29, 100), FloatVal(100, 100)}
SourceArgs == {"BD/DVD", "MAIN SOURCE", "Netflix"}
SoundModeArgs == {"Dolby Surround", "Quantum Surround"}

----------------------------------------------------------------------------
(* the entities are added; the receiver sends notifications *)

\* notifications delivered in one run of ZoneSpec
MaxEvents == 1

\* async_added_to_hass up to its first await: register the callback, start
\* retrieve_initial_states, which awaits the read of <zone>.power
Attach(zone) ==
    /\ ~CommandPending
    /\ boot[zone].pc = "new"
    /\ callbacks' = CallbacksAfterRegister(callbacks, zone)
    /\ boot' = [boot EXCEPT ![zone].pc = "power"]
    /\ last' = NoOp
    /\ UNCHANGED <<ent, dev, nevents>>
    /\ UNCHANGED supVars

\* the get_feature that retrieve_initial_states awaits returns, or raises (the
\* `except Exception` of retrieve_initial_states logs it and the method ends)
InitialRead(zone) ==
    /\ ~CommandPending
    /\ boot[zone].pc \in ReadingPcs
    /\ \E raises \in BOOLEAN :
         LET key == KeyAt(zone, boot[zone].pc)
             b == [boot[zone] EXCEPT !.reads = Append(@, key)]
             r == AfterInitialRead(ent[zone], b, GetFeature(key))
         IN IF raises
            THEN /\ boot' = [boot EXCEPT ![zone] = [b EXCEPT !.pc = "failed"]]
                 /\ ent' = ent
            ELSE /\ boot' = [boot EXCEPT ![zone] = r.b]
                 /\ ent' = [ent EXCEPT ![zone] = r.e]
    /\ last' = NoOp
    /\ UNCHANGED <<callbacks, dev, nevents>>
    /\ UNCHANGED supVars

\* the receiver changes a feature and pushes the notification: the client calls
\* every registered callback with it
DeviceEvent(msg) ==
    /\ ~CommandPending
    /\ nevents < MaxEvents
    /\ nevents' = nevents + 1
    /\ dev' = IF msg.feature \in DOMAIN dev THEN [dev EXCEPT ![msg.feature] = msg.value] ELSE dev
    /\ ent' = [z \in Zones |->
                 IF z \in callbacks THEN HandleNotification(ent[z], z, msg).e ELSE ent[z]]
    /\ last' = [op |-> "notify", zone |-> "none", arg |-> NoneVal, key |-> msg.feature,
                value |-> msg.value,
                raised |-> \E z \in callbacks : HandleNotification(ent[z], z, msg).raised]
    /\ UNCHANGED <<boot, callbacks>>
    /\ UNCHANGED supVars

\* the command's call is over
CommandReturns ==
    /\ CommandPending
    /\ last' = NoOp
    /\ UNCHANGED <<ent, boot, callbacks, dev, nevents>>
    /\ UNCHANGED supVars

\* the supervisor once setup has stored the controller and forwarded the platform
SupLoaded ==
    /\ net = "up"
    /\ is_connected = TRUE
    /\ tc = TcIdle
    /\ gm = GmIdle
    /\ setup = [pc |-> "returned", via |-> "entry", mac |-> TheMac, forwarded |-> TRUE]
    /\ mon = MonCreated
    /\ hass_data = [domain |-> TRUE, keys |-> KeysStoredBy("entry")]
    /\ call = [by |-> "setup", op |-> "get_feature", connected |-> TRUE]

ZoneSpecInit == SupLoaded /\ ZoneInit

\* the entities are added and initialised while the receiver pushes notifications
ZoneNext ==
    \/ \E z \in Zones : Attach(z)
    \/ \E z \in Zones : InitialRead(z)
    \/ \E msg \in EventsSent : DeviceEvent(msg)

ZoneSpec == ZoneSpecInit /\ [][ZoneNext]_vars

\* the notifications the receiver sends while commands are made: the input of the
\* main zone (MAIN SOURCE reads it), a zone powering on, a volume, the soundfield
CommandEventsSent ==
    { Message(Feature("main", "input"), StrVal("bd")),
      Message(Feature("zone2", "power"), StrVal("on")),
      Message(Feature("main", "volumestep"), IntVal(57)),
      Message(SoundField, StrVal("2ch")) }

\* the media_player services are called on the entities
CommandNext ==
    \/ \E z \in Zones : Attach(z)
    \/ \E z \in Zones : InitialRead(z)
    \/ \E msg \in CommandEventsSent : DeviceEvent(msg)
    \/ \E z \in Zones : TurnOn(z)
    \/ \E z \in Zones : TurnOff(z)
    \/ \E z \in Zones, mute \in BOOLEAN : MuteVolume(z, mute)
    \/ \E z \in Zones, volume \in VolumeArgs : SetVolumeLevel(z, volume)
    \/ \E z \in Zones : VolumeUp(z)
    \/ \E z \in Zones : VolumeDown(z)
    \/ \E z \in Zones, source \in SourceArgs : SelectSource(z, source)
    \/ \E z \in Zones, sound_mode \in SoundModeArgs : SelectSoundMode(z, sound_mode)
    \/ CommandReturns

CommandSpec == ZoneSpecInit /\ [][CommandNext]_vars

\* a source or a sound mode is selected from the lists the entity offers
VocabularyNext ==
    \/ \E z \in Zones : Attach(z)
    \/ \E z \in Zones : InitialRead(z)
    \/ \E z \in Zones : \E source \in SourceList(z) : SelectSource(z, source)
    \/ \E z \in Zones : \E sound_mode \in SoundModeList : SelectSoundMode(z, sound_mode)
    \/ CommandReturns

VocabularySpec == ZoneSpecInit /\ [][VocabularyNext]_vars

\* the volume steps of the receiver
MinStep == 0
MaxStep == 100

RECURSIVE InitialReads(_, _, _)
\* retrieve_initial_states of the entity of `zone` run to its end, no read raising
InitialReads(e, b, zone) ==
    IF b.pc \notin ReadingPcs
    THEN [e |-> e, b |-> b]
    ELSE LET key == KeyAt(zone, b.pc)
             r == AfterInitialRead(e, [b EXCEPT !.reads = Append(@, key)], GetFeature(key))
         IN InitialReads(r.e, r.b, zone)

\* the three entities are added and have read their initial states
ZonesAdded ==
    /\ dev = DevInit
    /\ callbacks = Zones
    /\ nevents = 0
    /\ last = NoOp
    /\ LET r == [z \in Zones |-> InitialReads(EntNew, [BootNew EXCEPT !.pc = "power"], z)]
       IN /\ ent = [z \in Zones |-> r[z].e]
          /\ boot = [z \in Zones |-> r[z].b]

\* the receiver reports a volume step of a zone; the volume level the entity
\* then shows is set again
VolumeNext ==
    \/ \E z \in Zones, s \in MinStep..MaxStep :
          DeviceEvent(Message(Feature(z, "volumestep"), IntVal(s)))
    \/ \E z \in Zones : IsNumber(ent[z].volume) /\ SetVolumeLevel(z, ent[z].volume)
    \/ CommandReturns

VolumeInit == SupLoaded /\ ZonesAdded

VolumeSpec == VolumeInit /\ [][VolumeNext]_vars

----------------------------------------------------------------------------
(* Spec: the life of the integration, from setup to unload *)

NoCall == [by |-> "none", op |-> "none", connected |-> FALSE]

SupIdle ==
    /\ is_connected = FALSE
    /\ tc = TcIdle
    /\ gm = GmIdle
    /\ setup = SetupIdle
    /\ mon = MonNone
    /\ hass_data = [domain |-> FALSE, keys |-> {}]
    /\ call = NoCall

Init ==
    /\ net \in {"up", "down"}
    /\ SupIdle
    /\ ZoneInit

Next ==
    \/ SetupStart
    \/ SetupConnected
    \/ SetupMac
    \/ SetupFinish
    \/ Unload
    \/ TryConnectAttempt
    \/ TryConnectSleep
    \/ GetMacCheck
    \/ GetMacReconnected
    \/ GetMacRead
    \/ GetMacSleepCancelled
    \/ GetMacSleep
    \/ MonitorCheck
    \/ MonitorReconnected
    \/ MonitorWake
    \/ NetUp
    \/ NetDown

Spec == Init /\ [][Next]_vars
FairSpec ==
    /\ Spec
    /\ WF_vars(MonitorCheck)
    /\ WF_vars(MonitorReconnected)
    /\ WF_vars(MonitorWake)
    /\ WF_vars(TryConnectAttempt)
    /\ WF_vars(TryConnectSleep)

----------------------------------------------------------------------------
(* RetrySpec: try_connect or try_get_mac_address called on its own, with *)
(* max_retries and delay drawn from 1..MaxRetries and 1..MaxDelay        *)

RetryInit ==
    /\ net \in {"up", "down"}
    /\ setup = SetupIdle
    /\ mon = MonNone
    /\ hass_data = [domain |-> FALSE, keys |-> {}]
    /\ call = NoCall
    /\ ZoneInit
    /\ \E n \in 1..MaxRetries, d \in 1..MaxDelay :
         \/ /\ tc = TcStart("direct", n, d)
            /\ gm = GmIdle
            /\ is_connected = FALSE
         \/ /\ tc = TcIdle
            /\ gm = GmStart(n, d)
            /\ is_connected \in {b \in BOOLEAN : b => net = "up"}

RetryNext ==
    \/ TryConnectAttempt
    \/ TryConnectSleep
    \/ GetMacCheck
    \/ GetMacReconnected
    \/ GetMacRead
    \/ GetMacSleepCancelled
    \/ GetMacSleep
    \/ NetUp
    \/ NetDown

RetrySpec == RetryInit /\ [][RetryNext]_vars

----------------------------------------------------------------------------
(* Properties of the connection supervisor *)

Failed(outcome) == outcome \in {"false", "raise"}

\* C1: try_connect with max_retries = n makes exactly n connect() calls when all of
\* them fail (False or an Exception) and then returns False; it returns True right
\* after the first connect() that returns True, on call k <= n; it never raises.
C1_TryConnectContract ==
    tc.pc # "idle" =>
      LET calls == Len(tc.outcomes) IN
      /\ tc.pc \in {"connect", "sleep", "returned"}
      /\ calls <= tc.max_retries
      /\ \A i \in 1..calls :
           tc.outcomes[i] = "true" => i = calls /\ tc.pc = "returned" /\ tc.result
      /\ tc.pc = "returned" =>
           IF tc.result
           THEN tc.outcomes[calls] = "true" /\ calls = tc.attempt
           ELSE calls = tc.max_retries /\ \A i \in 1..calls : Failed(tc.outcomes[i])

\* try_connect(max_retries = MaxRetries) gave up after MaxRetries failed calls, one
\* of them an exception
C1_Witness ==
    /\ tc.caller = "direct"
    /\ tc.pc = "returned"
    /\ ~tc.result
    /\ tc.max_retries = MaxRetries
    /\ Len(tc.outcomes) = MaxRetries
    /\ \E i \in 1..Len(tc.outcomes) : tc.outcomes[i] = "raise"

\* C2: from the return of setup until unload a monitor task is running, also when
\* the connection attempts of setup failed; after unload none is running and no
\* connect() is under way.
C2_MonitorWhileLoaded ==
    /\ setup.pc = "returned" => MonitorRunning
    /\ setup.pc = "unloaded" => ~MonitorRunning /\ tc.pc = "idle"

\* C3: the monitor loop ends only by cancellation at unload, also after a failed
\* reconnection; and if from some point on connect() succeeds and the loop is not
\* cancelled, the session ends up connected for good.
C3_MonitorNeverGivesUp ==
    /\ [][MonitorRunning /\ ~MonitorRunning' => mon'.pc = "cancelled" /\ setup'.pc = "unloaded"]_vars
    /\ [][mon.pc = "connecting" /\ mon'.reconnect = "failed" /\ mon' # mon
            => mon'.pc \in {"sleeping", "cancelled"}]_vars
    /\ (<>[](net = "up" /\ MonitorRunning) => <>[]is_connected)

\* the loop is reconnecting again after a reconnection that failed
C3_Witness ==
    /\ mon.pc = "connecting"
    /\ mon.reconnect = "failed"
    /\ tc.caller = "monitor"
    /\ Len(tc.outcomes) >= 1

\* C4: the monitor calls connect() only in a round whose wake-up read the flag as
\* false, and it makes no other call on the client.
C4_MonitorConnectsOnlyWhenDown ==
    /\ mon.pc = "connecting" => ~mon.seen
    /\ call.by = "monitor" => call.op = "connect" /\ ~call.connected
    /\ tc.caller = "monitor" => mon.pc = "connecting"

\* the monitor has reconnected the session, and at a later wake-up found the flag
\* true and went back to sleep without a call
C4_Witness ==
    /\ call.by = "monitor"
    /\ mon.reconnect = "ok"
    /\ mon.pc = "sleeping"
    /\ mon.seen
    /\ is_connected

\* C10: try_get_mac_address swallows a cancellation of the read and goes on to the
\* next attempt; it reads at most max_retries times, returns the first non-empty
\* MAC read, and returns None only after all attempts, none of which read a MAC.
C10_GetMacContract ==
    gm.pc # "idle" =>
      LET reads == Len(gm.reads) IN
      /\ gm.pc \in {"check", "connecting", "read", "sleep_cancelled", "sleep", "returned"}
      /\ reads <= gm.attempt
      /\ gm.attempt <= gm.max_retries
      /\ \A i \in 1..reads :
           gm.reads[i] = "mac" => i = reads /\ gm.pc = "returned" /\ gm.result = TheMac
      /\ (reads > 0 /\ gm.reads[reads] = "cancel" /\ gm.attempt = reads /\ reads < gm.max_retries)
           => gm.pc \in {"sleep_cancelled", "sleep"}
      /\ gm.pc = "returned" =>
           IF gm.result # NoMac
           THEN gm.result = TheMac /\ reads > 0 /\ gm.reads[reads] = "mac"
           ELSE gm.attempt = gm.max_retries /\ \A i \in 1..reads : gm.reads[i] # "mac"

\* the first read was cancelled, a later attempt read the MAC and returned it
C10_Witness ==
    /\ gm.pc = "returned"
    /\ gm.result = TheMac
    /\ Len(gm.reads) >= 2
    /\ gm.reads[1] = "cancel"

----------------------------------------------------------------------------
(* Properties of the backoff *)

RECURSIVE Pow(_, _)
Pow(b, k) == IF k = 0 THEN 1 ELSE b * Pow(b, k - 1)

RECURSIVE SumSeq(_)
SumSeq(q) == IF q = <<>> THEN 0 ELSE Head(q) + SumSeq(Tail(q))

\* the waits before attempt n + 1 when attempt k is followed by one wait of
\* base * 2^(k-1)
Schedule(n, base) == [k \in 1..n |-> base * Pow(2, k - 1)]

\* the delay a retry function was entered with: `delay` is doubled once per wait
DelayArgument(r) == r.delay \div Pow(BackoffFactor, Len(r.waits))

\* C11: on the connect, reconnect and MAC paths alike, when attempt k + 1 starts
\* the function has waited once after each earlier attempt, base * 2^(j-1)
\* after attempt j, with the same base, whatever made the attempts fail.
C11_SameBackoffEverywhere ==
    /\ tc.pc = "connect" => tc.waits = Schedule(tc.attempt - 1, DefaultDelay)
    /\ gm.pc \in {"check", "connecting", "read"} =>
          gm.waits = Schedule(gm.attempt - 1, DefaultDelay)

\* C20: try_connect(n, d) with every attempt failing waits d * 2^(k-1) after
\* attempt k for k < n and not after attempt n, d * (2^(n-1) - 1) in all; every
\* wait lies between two connect() calls.
C20_TryConnectSchedule ==
    /\ tc.pc = "connect" => Len(tc.waits) = Len(tc.outcomes)
    /\ tc.pc \in {"sleep", "returned"} => Len(tc.waits) = Len(tc.outcomes) - 1
    /\ tc.pc = "returned" /\ ~tc.result =>
          /\ Len(tc.outcomes) = tc.max_retries
          /\ tc.waits = Schedule(tc.max_retries - 1, DelayArgument(tc))
          /\ SumSeq(tc.waits) = DelayArgument(tc) * (Pow(2, tc.max_retries - 1) - 1)

\* try_connect(3, 2) has failed three times: it waited 2 and 4, 3 * 2 in all
C20_Witness ==
    /\ tc.pc = "returned"
    /\ ~tc.result
    /\ tc.max_retries = 3
    /\ Len(tc.outcomes) = 3
    /\ tc.waits = <<2, 4>>
    /\ tc.delay = 8

----------------------------------------------------------------------------
(* Properties of setup *)

\* setup returned before it stored anything
ReturnedEarly == setup.pc = "returned" /\ ~setup.forwarded

\* setup returned early after try_get_mac_address: the last call to the client
\* was made on the MAC path
ReturnedWithoutMac == ReturnedEarly /\ call.by = "mac"

\* setup returned early after try_connect: the last call was its connect()
ReturnedUnconnected == ReturnedEarly /\ call.by = "setup" /\ call.op = "connect"

\* C12: when the MAC read fails on every retry and the device_tracker lookup
\* finds none either, setup still stores the controller, starts the connection
\* monitor and forwards to the media_player platform.
C12_SetupProceedsWithoutMac ==
    ReturnedWithoutMac =>
       /\ "controller" \in hass_data.keys
       /\ MonitorRunning
       /\ setup.forwarded

\* C13: when try_connect has used up its retries, setup returns True and does
\* not raise; nothing is stored, no monitor is created, the platform is not
\* forwarded, and it stays so.
C13_ConnectFailureNonFatal ==
    /\ [](ReturnedUnconnected =>
             hass_data.keys = {} /\ mon = MonNone /\ setup.mac = NoMac)
    /\ [][setup.pc = "connecting" /\ setup'.pc # "connecting" /\ ~tc.result =>
             /\ setup'.pc = "returned"
             /\ ~setup'.forwarded
             /\ hass_data'.keys = {}
             /\ mon' = MonNone]_vars

\* async_setup_entry has returned after three failed connect() calls
C13_Witness ==
    /\ ReturnedUnconnected
    /\ setup.via = "entry"
    /\ hass_data = [domain |-> TRUE, keys |-> {}]
    /\ mon = MonNone
    /\ ~is_connected

----------------------------------------------------------------------------
(* Properties of the zone entities *)

\* the step delivers a notification to the registered callbacks
Delivers == nevents' # nevents

\* the notification a Delivers step delivers
Delivered == Message(last'.key, last'.value)

\* every entity has made its register_notification_callback call
AllAttached == \A z \in Zones : boot[z].pc # "new"

\* the key carries the prefix "<zone>."
HasPrefix(key, zone) == Len(key) > 1 /\ key[1] = zone

\* C5: for every zone z, a notification whose feature key does not carry z's
\* prefix (another zone's, none as in audio.soundfield, an unknown one) leaves
\* every field of z's entity as it was.
C5_ForeignPrefixIgnored ==
    [][Delivers =>
         \A z \in Zones : ~HasPrefix(Delivered.feature, z) => ent'[z] = ent[z]]_vars

\* all entities registered and initialised with the main zone unmuted; the
\* receiver then reported zone2.mute on, which is not the main zone's
C5_Witness ==
    /\ callbacks = Zones
    /\ \A z \in Zones : boot[z].pc = "done"
    /\ last.op = "notify"
    /\ last.key = Feature("zone2", "mute")
    /\ ent["zone2"].mute = BoolVal(TRUE)
    /\ ent["main"].mute = BoolVal(FALSE)

C7_OneFieldPerFeature ==
    [][Delivers =>
         \A z \in callbacks :
            HasPrefix(Delivered.feature, z) =>
               LET name == Tail(Delivered.feature)
                   value == Delivered.value
                   e == ent[z]
               IN CASE name = <<"power">> -> ent'[z] = [e EXCEPT !.state = ent'[z].state]
                    [] name = <<"input">> -> ent'[z] = [e EXCEPT !.source = value]
                    [] name = <<"mute">> ->
                         ent'[z] = [e EXCEPT !.mute = BoolVal(value = StrVal("on"))]
                    [] name = <<"volumestep">> ->
                         IntConvertible(value) => ent'[z] = [e EXCEPT !.volume = FloatVal(value[2], 100)]
                    [] OTHER -> ent'[z] = e /\ ~last'.raised]_vars

\* main is on and the receiver has just reported main.mute on: main is muted,
\* its other fields are those of the initial read
C7_Witness ==
    /\ last.op = "notify"
    /\ last.key = Feature("main", "mute")
    /\ boot["main"].pc = "done"
    /\ ent["main"] = [EntNew EXCEPT !.state = StrVal("on"), !.source = StrVal("tv"),
                                     !.sound_mode = StrVal("dolby"), !.mute = BoolVal(TRUE),
                                     !.volume = FloatVal(29, 100)]

\* C8: for every zone z and step s in 0..100, the notification z.volumestep s
\* makes the volume s/100, and set_volume_level(s/100) hands the same s to
\* set_feature(z.volumestep, s).
C8_VolumeRoundTrip ==
    last.op = "set_volume_level" =>
       \E s \in MinStep..MaxStep :
          /\ ent[last.zone].volume = FloatVal(s, 100)
          /\ last.arg = FloatVal(s, 100)
          /\ last.key = Feature(last.zone, "volumestep")
          /\ last.value = IntVal(s)

\* C9: a command, whether its set_feature returns, is not made or raises,
\* leaves every field of every entity as it was.
C9_CommandsLeaveState ==
    [][~CommandPending /\ CommandPending' => ent' = ent]_vars

\* main shows on and turn_off has just been called on it, set_feature raising
C9_Witness ==
    /\ last.op = "turn_off"
    /\ last.zone = "main"
    /\ last.raised
    /\ ent["main"].state = StrVal("on")

----------------------------------------------------------------------------
(* Properties of the vocabularies *)

\* the entity holding the device token `token` as its source
Holding(token) == [EntNew EXCEPT !.source = StrVal(token)]

\* C14: in every zone the tokens 'dvd' and 'bd' both display as 'BD/DVD' ('sat'
\* and 'catv' as 'SAT/CATV', 'cd' and 'sacd' as 'CD/SACD'), and
\* select_source('BD/DVD') hands ('<z>.input', 'bd') to set_feature, once,
\* whatever token the entity holds.
C14_SourceVocabulary ==
    /\ \A token \in {"dvd", "bd"} : Source(Holding(token)) = StrVal("BD/DVD")
    /\ \A token \in {"sat", "catv"} : Source(Holding(token)) = StrVal("SAT/CATV")
    /\ \A token \in {"cd", "sacd"} : Source(Holding(token)) = StrVal("CD/SACD")
    /\ \A z \in Zones :
          ent[z].source \in {StrVal("dvd"), StrVal("bd")} => Source(ent[z]) = StrVal("BD/DVD")
    /\ last.op = "select_source" /\ last.arg = StrVal("BD/DVD") =>
          /\ last.key = Feature(last.zone, "input")
          /\ last.value = StrVal("bd")

\* zone2 holds 'dvd', shown as BD/DVD; BD/DVD is selected on it and 'bd' is sent
C14_Witness ==
    /\ last.op = "select_source"
    /\ last.zone = "zone2"
    /\ last.arg = StrVal("BD/DVD")
    /\ last.value = StrVal("bd")
    /\ ~last.raised
    /\ ent["zone2"].source = StrVal("dvd")
    /\ Source(ent["zone2"]) = StrVal("BD/DVD")

\* C15: select_source('MAIN SOURCE') on zone2 or zone3 reads main.input from the
\* receiver and hands that value, as read, to set_feature('<z>.input', v): not
\* the token 'source', not the name, not what the main entity holds.  (When
\* the read raises, nothing is sent and the exception leaves the command.)
C15_MainSourceFollowsDevice ==
    ( /\ last.op = "select_source"
      /\ last.arg = StrVal("MAIN SOURCE")
      /\ last.zone \in {"zone2", "zone3"}
      /\ Truthy(dev[Feature("main", "input")]) ) =>
        IF last.key = <<>>
        THEN last.raised
        ELSE /\ last.key = Feature(last.zone, "input")
             /\ last.value = dev[Feature("main", "input")]
             /\ last.value \notin {StrVal("MAIN SOURCE"), StrVal("source")}

\* the main entity's initial read failed and it holds no source; the receiver's
\* main input is 'tv'; MAIN SOURCE on zone2 sends zone2.input 'tv'
C15_Witness ==
    /\ last.op = "select_source"
    /\ last.zone = "zone2"
    /\ last.arg = StrVal("MAIN SOURCE")
    /\ last.key = Feature("zone2", "input")
    /\ last.value = StrVal("tv")
    /\ dev[Feature("main", "input")] = StrVal("tv")
    /\ ent["main"].source = NoneVal

\* the command names a source outside the zone's source_list, or a sound mode
\* outside sound_mode_list
UnknownName(op, zone, arg) ==
    \/ op = "select_source" /\ arg[2] \notin SourceList(zone)
    \/ op = "select_sound_mode" /\ arg[2] \notin SoundModeList

\* C16: select_source or select_sound_mode with a name outside the vocabulary
\* calls no set_feature, raises nothing, and leaves the entities as they were.
C16_UnknownNameNoOp ==
    /\ [](last.op \in {"select_source", "select_sound_mode"}
            /\ UnknownName(last.op, last.zone, last.arg) =>
               last.key = <<>> /\ ~last.raised)
    /\ [][ /\ ~CommandPending
           /\ last'.op \in {"select_source", "select_sound_mode"}
           /\ UnknownName(last'.op, last'.zone, last'.arg)
           => ent' = ent ]_vars

\* main has dolby as its sound mode, shown on; 'Quantum Surround' is selected:
\* nothing is sent
C16_Witness ==
    /\ last.op = "select_sound_mode"
    /\ last.zone = "main"
    /\ last.arg = StrVal("Quantum Surround")
    /\ last.key = <<>>
    /\ ~last.raised
    /\ ent["main"].sound_mode = StrVal("dolby")

----------------------------------------------------------------------------
(* Properties of the initial read *)

\* the step is the return of the get_feature that the entity of z awaited at pc
Reads(z, pc) == boot[z].pc = pc /\ boot'[z].pc \notin {pc, "failed"}

\* the keys retrieve_initial_states of z reads when the zone is on, in order
ReadOrder(z) ==
    <<Feature(z, "power"), Feature(z, "input"), Feature(z, "volumestep"), SoundField,
      Feature(z, "mute")>>

AtPowerRead == [BootNew EXCEPT !.pc = "power"]

\* C17: when '<z>.power' reads 'off' the initial read sets the state to off,
\* reads nothing more and writes no other field; when it reads anything but
\* 'on' or 'off' (None too) it writes no field at all and does not raise.
C17_InitialReadOffOrUnknown ==
    /\ AfterInitialRead(EntNew, AtPowerRead, NoneVal) = [e |-> EntNew, b |-> [AtPowerRead EXCEPT !.pc = "done"]]
    /\ [](\A z \in Zones :
            boot[z].pc = "done" /\ Len(boot[z].reads) = 1 /\ nevents = 0 =>
               ent[z] = [EntNew EXCEPT !.state = StrVal("off")])
    /\ [][\A z \in Zones :
            Reads(z, "power") /\ ~PyEqStr(GetFeature(Feature(z, "power")), "on") =>
               /\ boot'[z].pc = "done"
               /\ boot'[z].reads = <<Feature(z, "power")>>
               /\ ent'[z] = IF PyEqStr(GetFeature(Feature(z, "power")), "off")
                            THEN [ent[z] EXCEPT !.state = StrVal("off")]
                            ELSE ent[z]]_vars

\* the receiver's main zone went to standby before main read its power: main
\* has read only the power and holds no field; zone2 read off and holds off
C17_Witness ==
    /\ dev[Feature("main", "power")] = StrVal("standby")
    /\ boot["main"].pc = "done"
    /\ boot["main"].reads = <<Feature("main", "power")>>
    /\ ent["main"] = EntNew
    /\ boot["zone2"].pc = "done"
    /\ boot["zone2"].reads = <<Feature("zone2", "power")>>
    /\ ent["zone2"] = [EntNew EXCEPT !.state = StrVal("off")]

\* C18: a '<z>.power' notification whose value is neither 'on' nor 'off' leaves
\* the power state of z as it was, and the handler raises nothing.
C18_UnexpectedPowerKeepsState ==
    [][Delivers =>
         \A z \in callbacks :
            ( /\ Delivered.feature = Feature(z, "power")
              /\ Delivered.value \notin {StrVal("on"), StrVal("off")} ) =>
               ent'[z].state = ent[z].state /\ ~last'.raised]_vars

\* C19: when '<z>.power' reads 'on' the initial read sets the state to on and
\* reads input, volumestep, audio.soundfield, mute, one after the other in
\* that order; the source is the input read, the sound mode the soundfield
\* read, and at its end mute is (mute read = 'on') and the volume is the
\* volumestep read / 100.
C19_InitialReadOn ==
    /\ [](\A z \in Zones :
            /\ boot[z].reads = SubSeq(ReadOrder(z), 1, Len(boot[z].reads))
            /\ boot[z].pc = "done" /\ Len(boot[z].reads) > 1 => boot[z].reads = ReadOrder(z)
            /\ boot[z].pc = "done" /\ Len(boot[z].reads) > 1 /\ nevents = 0 =>
                 ent[z] = [EntNew EXCEPT
                             !.state = StrVal("on"),
                             !.source = DevInit[Feature(z, "input")],
                             !.sound_mode = DevInit[SoundField],
                             !.mute = BoolVal(DevInit[Feature(z, "mute")] = StrVal("on")),
                             !.volume = FloatVal(DevInit[Feature(z, "volumestep")][2], 100)])
    /\ [][\A z \in Zones :
            /\ Reads(z, "power") /\ PyEqStr(GetFeature(Feature(z, "power")), "on") =>
                 ent'[z] = [ent[z] EXCEPT !.state = StrVal("on")] /\ boot'[z].pc = "input"
            /\ Reads(z, "input") =>
                 ent'[z] = [ent[z] EXCEPT !.source = GetFeature(Feature(z, "input"))]
            /\ Reads(z, "volumestep") =>
                 ent'[z] = ent[z] /\ boot'[z].volumestep = GetFeature(Feature(z, "volumestep"))
            /\ Reads(z, "soundfield") =>
                 ent'[z] = [ent[z] EXCEPT !.sound_mode = GetFeature(SoundField)]
            /\ Reads(z, "mute") =>
                 /\ boot'[z].pc = "done"
                 /\ ent'[z].mute = BoolVal(GetFeature(Feature(z, "mute")) = StrVal("on"))
                 /\ IsNumber(boot[z].volumestep) =>
                       ent'[z].volume = FloatVal(boot[z].volumestep[2], 100)
                 /\ ent'[z] = [ent[z] EXCEPT !.mute = ent'[z].mute, !.volume = ent'[z].volume]]_vars

\* main read on, tv, 29, dolby and off, with no notification in between
C19_Witness ==
    /\ nevents = 0
    /\ boot["main"].pc = "done"
    /\ boot["main"].reads = ReadOrder("main")
    /\ boot["main"].volumestep = IntVal(29)
    /\ ent["main"] = [EntNew EXCEPT !.state = StrVal("on"), !.source = StrVal("tv"),
                                     !.sound_mode = StrVal("dolby"), !.mute = BoolVal(FALSE),
                                     !.volume = FloatVal(29, 100)]

\* a notification has set the volume of z since retrieve_initial_states read
\* the volume step: the entity shows a volume that is not the step it read
VolumeNotifiedSinceRead(z) ==
    /\ boot[z].pc \in {"soundfield", "mute"}
    /\ IsNumber(boot[z].volumestep)
    /\ ent[z].volume # NoneVal
    /\ ent[z].volume # FloatVal(boot[z].volumestep[2], 100)

\* C21: the callback is registered before the initial read starts, and the
\* initial read never puts a value it read earlier over the value of a
\* notification applied since: when it ends, the state, the source and a
\* volume notified since the volumestep read are what they were.
C21_InitialReadKeepsNewerValues ==
    /\ [](\A z \in Zones : boot[z].pc # "new" => z \in callbacks)
    /\ [][\A z \in Zones :
            Reads(z, "mute") =>
               /\ ent'[z].state = ent[z].state
               /\ ent'[z].source = ent[z].source
               /\ VolumeNotifiedSinceRead(z) => ent'[z].volume = ent[z].volume]_vars

\* retrieve_initial_states of z is over, at its end or by an exception
InitialReadOver(z) == boot[z].pc \in {"done", "failed"}

\* C22: only the initial read writes the sound mode of a zone: once it is over
\* no notification (audio.soundfield included) and no command
\* (select_sound_mode included) changes it, and before that only the return
\* of the audio.soundfield read does.
C22_SoundModeOnlyFromInitialRead ==
    [][\A z \in Zones :
         /\ InitialReadOver(z) => ent'[z].sound_mode = ent[z].sound_mode
         /\ ~Reads(z, "soundfield") => ent'[z].sound_mode = ent[z].sound_mode
         /\ InitialReadOver(z) /\ Len(boot[z].reads) < 4 => ent[z].sound_mode = NoneVal]_vars

\* main read dolby; since then the receiver reported the soundfield 2ch and
\* select_sound_mode went through on main: main still holds dolby
C22_Witness ==
    /\ boot["main"].pc = "done"
    /\ boot["main"].reads = ReadOrder("main")
    /\ dev[SoundField] = StrVal("2ch")
    /\ last.op = "select_sound_mode"
    /\ last.zone = "main"
    /\ last.key = SoundField
    /\ ~last.raised
    /\ ent["main"].sound_mode = StrVal("dolby")

\* C23: select_source with a name of the zone's source_list other than
\* 'MAIN SOURCE' sends a token that the source property shows as that name
\* again; select_sound_mode with a name of sound_mode_list sends a token that
\* the sound_mode property shows as that name.
C23_SelectionRoundTrip ==
    /\ last.op = "select_source" /\ last.arg # StrVal("MAIN SOURCE") =>
          /\ last.key = Feature(last.zone, "input")
          /\ Source([EntNew EXCEPT !.source = last.value]) = last.arg
    /\ last.op = "select_sound_mode" =>
          /\ last.key = SoundField
          /\ SoundMode([EntNew EXCEPT !.sound_mode = last.value]) = last.arg

\* SAT/CATV is selected on zone3: 'sat' is sent, which shows as SAT/CATV
C23_Witness ==
    /\ last.op = "select_source"
    /\ last.zone = "zone3"
    /\ last.arg = StrVal("SAT/CATV")
    /\ last.key = Feature("zone3", "input")
    /\ last.value = StrVal("sat")
    /\ Source([EntNew EXCEPT !.source = StrVal("sat")]) = StrVal("SAT/CATV")

\* C24: the volume display mode of every entity is 'step' in every reachable
\* state, so set_volume_level hands an integer of 0..100 to set_feature on
\* '<z>.volumestep', once, and nothing on '<z>.volumedb'.
C24_VolumeModeIsStep ==
    /\ \A z \in Zones : ent[z].volumedisplay_mode = "step"
    /\ last.op = "set_volume_level" =>
          /\ last.key = Feature(last.zone, "volumestep")
          /\ last.value[1] = "int"
          /\ last.value[2] \in 0..100

\* set_volume_level(1.0) on zone2 sends zone2.volumestep 100
C24_Witness ==
    /\ last.op = "set_volume_level"
    /\ last.zone = "zone2"
    /\ last.arg = FloatVal(100, 100)
    /\ last.key = Feature("zone2", "volumestep")
    /\ last.value = IntVal(100)
    /\ ent["zone2"].volumedisplay_mode = "step"

====
